---------------------------- MODULE Spec2Model ----------------------------
(***************************************************************************)
(* A model of the Skinport client (src/src/Skinport.ts): construction of   *)
(* the axios gateway with its Authorization header, the four marketplace   *)
(* GET operations, the initSocket() promise and the socket getter.         *)
(*                                                                         *)
(* Strings that are converted (credentials, header values) are sequences   *)
(* of character codes; strings that are only compared are TLA+ strings.    *)
(***************************************************************************)
EXTENDS Integers, Sequences, FiniteSets, TLC

(***************************************************************************)
(* Bounds                                                                  *)
(***************************************************************************)
MaxCredLen == 1
MaxInitCalls == 2
MaxSignals == 3
MaxReads == 2
MaxHttpCalls == 1

\* Characters a credential is drawn from: 'a' (one UTF-8 byte) and
\* e-acute (two UTF-8 bytes).
CredChars == {97, 233}

RECURSIVE StringsUpTo(_)
StringsUpTo(n) ==
    IF n = 0 THEN {<<>>}
    ELSE LET shorter == StringsUpTo(n - 1)
         IN  shorter \cup {Append(s, c) : s \in shorter, c \in CredChars}

\* An optional constructor argument: absent (undefined) or a string.
Credentials ==
    {[present |-> FALSE, str |-> <<>>]}
        \cup {[present |-> TRUE, str |-> s] : s \in StringsUpTo(MaxCredLen)}

(***************************************************************************)
(* Skinport.constructor: the Authorization header                          *)
(***************************************************************************)
Colon == 58
PadChar == 61
BasicPrefix == <<66, 97, 115, 105, 99, 32>>     \* "Basic "

\* JavaScript truthiness of an optional string: undefined and "" are falsy.
Truthy(c) == c.present /\ c.str # <<>>

\* Buffer.from(string): the UTF-8 bytes of the string (code points < 2048).
RECURSIVE Utf8Encode(_)
Utf8Encode(s) ==
    IF s = <<>> THEN <<>>
    ELSE LET c == Head(s)
         IN  (IF c < 128 THEN <<c>>
              ELSE <<192 + (c \div 64), 128 + (c % 64)>>)
             \o Utf8Encode(Tail(s))

\* The base64 alphabet, as character codes: A-Z a-z 0-9 + /
Base64Char(i) ==
    IF i < 26 THEN 65 + i
    ELSE IF i < 52 THEN 97 + (i - 26)
    ELSE IF i < 62 THEN 48 + (i - 52)
    ELSE IF i = 62 THEN 43
    ELSE 47

\* Buffer.prototype.toString('base64'): 3 bytes to 4 characters, '=' padded.
RECURSIVE Base64Encode(_)
Base64Encode(b) ==
    IF Len(b) = 0 THEN <<>>
    ELSE IF Len(b) = 1 THEN
        <<Base64Char(b[1] \div 4), Base64Char((b[1] % 4) * 16), PadChar, PadChar>>
    ELSE IF Len(b) = 2 THEN
        <<Base64Char(b[1] \div 4),
          Base64Char((b[1] % 4) * 16 + (b[2] \div 16)),
          Base64Char((b[2] % 16) * 4),
          PadChar>>
    ELSE
        <<Base64Char(b[1] \div 4),
          Base64Char((b[1] % 4) * 16 + (b[2] \div 16)),
          Base64Char((b[2] % 16) * 4 + (b[3] \div 64)),
          Base64Char(b[3] % 64)>>
        \o Base64Encode(SubSeq(b, 4, Len(b)))

\* Mutant of AuthorizationHeader: the separator is left out.
AuthorizationHeaderNoColon(id, secret) ==
    IF Truthy(id) /\ Truthy(secret)
    THEN BasicPrefix \o Base64Encode(Utf8Encode(id.str \o secret.str))
    ELSE <<>>

\* (clientId && clientSecret) ? `Basic ${base64(`${clientId}:${clientSecret}`)}` : ""
AuthorizationHeader(id, secret) ==
    IF Truthy(id) /\ Truthy(secret)
    THEN BasicPrefix \o Base64Encode(Utf8Encode(id.str \o <<Colon>> \o secret.str))
    ELSE <<>>

\* axios.create({ baseURL, headers })
AxiosCreate(id, secret) ==
    [baseURL |-> "https://api.skinport.com/v1",
     headers |-> [Authorization  |-> AuthorizationHeader(id, secret),
                  AcceptEncoding |-> "br",
                  ContentType    |-> "application/json"]]

(***************************************************************************)
(* State                                                                   *)
(***************************************************************************)
VARIABLES
    clientId,       \* constructor argument clientId?: string
    clientSecret,   \* constructor argument clientSecret?: string
    api,            \* private api: AxiosInstance (its configuration)
    _socket,        \* private _socket?: ExtendedSocket; 0 is undefined
    ioCount,        \* number of io(...) calls made so far (transport connections)
    listeners,      \* handlers registered with _socket.on(...)
    signals,        \* events the transport has emitted on the socket, in order
    initCalls,      \* the promise of every initSocket() call, in call order
    reads,          \* the outcome of every read of the socket accessor, in order
    httpCalls,      \* the promise of every marketplace operation call, in call order
    requests        \* every HTTP request handed to the network, in order

vars == <<clientId, clientSecret, api, _socket, ioCount, listeners, signals,
          initCalls, reads, httpCalls, requests>>

gatewayVars == <<clientId, clientSecret, api>>
socketVars == <<_socket, ioCount, listeners, signals, initCalls>>
httpVars == <<httpCalls, requests>>

Last(s) == s[Len(s)]

(***************************************************************************)
(* Marketplace operations                                                  *)
(***************************************************************************)
OpPath(op) ==
    CASE op = "getItems"        -> "/items"
      [] op = "getSalesHistory" -> "/sales/history"
      [] op = "getOutOfStock"   -> "/sales/out-of-stock"
      [] op = "getTransactions" -> "/account/transactions"

\* An options argument: undefined, or an object given as its set of
\* <<field, value>> pairs.
Undefined == [defined |-> FALSE, fields |-> {}]
Object(fields) == [defined |-> TRUE, fields |-> fields]

OptionChoices(op) ==
    CASE op = "getItems" ->
            {Undefined, Object({}),
             Object({<<"app_id", "730">>, <<"currency", "EUR">>, <<"tradable", "true">>})}
      [] op = "getSalesHistory" ->
            {Object({<<"market_hash_name", "AK-47">>, <<"currency", "USD">>})}
      [] op = "getOutOfStock" ->
            {Object({<<"app_id", "730">>, <<"currency", "EUR">>})}
      [] op = "getTransactions" ->
            {Undefined,
             Object({<<"page", "1">>, <<"limit", "100">>, <<"order", "desc">>})}

\* getItems(options = {}): the default parameter value replaces undefined.
ItemsOptions(options) ==
    IF options.defined THEN options ELSE Object({})

\* Mutant of ApiGet: a request is sent twice.
ApiGetTwice(path, params, call) ==
    LET req == [method  |-> "GET",
                baseURL |-> api.baseURL,
                url     |-> path,
                params  |-> params,
                headers |-> api.headers,
                call    |-> call]
    IN  <<req, req>>

\* this.api.get(path, { params }): the requests handed to the network for
\* one call of the gateway.
ApiGet(path, params, call) ==
    <<[method  |-> "GET",
       baseURL |-> api.baseURL,
       url     |-> path,
       params  |-> params,
       headers |-> api.headers,
       call    |-> call]>>

NoValue == [kind |-> "none", status |-> 0, data |-> ""]

\* What the network has delivered for a call: nothing yet, a response, or
\* a transport failure.
NoResponse == [kind |-> "none", status |-> 0, data |-> ""]
Response(status, data) == [kind |-> "response", status |-> status, data |-> data]
NetworkFailure == [kind |-> "network", status |-> 0, data |-> ""]

\* A marketplace operation is invoked: one gateway call, promise pending.
Invoke(op, options, params) ==
    /\ Len(httpCalls) < MaxHttpCalls
    /\ requests' = requests \o ApiGet(OpPath(op), params, Len(httpCalls) + 1)
    /\ httpCalls' = Append(httpCalls,
                           [op |-> op, options |-> options,
                            state |-> "pending", value |-> NoValue,
                            response |-> NoResponse])
    /\ UNCHANGED <<gatewayVars, socketVars, reads>>

getItems(options) == Invoke("getItems", options, ItemsOptions(options))

getSalesHistory(options) == Invoke("getSalesHistory", options, options)

getOutOfStock(options) == Invoke("getOutOfStock", options, options)

getTransactions(options) == Invoke("getTransactions", options, options)

\* What the server may answer.
Statuses == {200, 404}
Bodies == {"body-1", "body-2"}

\* (await this.api.get(...)).data
ResponseData(response) ==
    [kind |-> "data", status |-> 0, data |-> response.data]

\* The response to call i arrives. The gateway resolves with a 2xx
\* response and rejects with a request error otherwise; the operation
\* returns the body of the former and lets the latter propagate.
HttpResponse(i, status, data) ==
    /\ i \in 1..Len(httpCalls)
    /\ httpCalls[i].state = "pending"
    /\ httpCalls' =
         IF status >= 200 /\ status < 300
         THEN [httpCalls EXCEPT
                 ![i].response = Response(status, data),
                 ![i].state = "fulfilled",
                 ![i].value = ResponseData(Response(status, data))]
         ELSE [httpCalls EXCEPT
                 ![i].response = Response(status, data),
                 ![i].state = "rejected",
                 ![i].value = [kind |-> "error", status |-> status, data |-> data]]
    /\ UNCHANGED <<gatewayVars, socketVars, reads, requests>>

\* The transport fails before any response to call i arrives.
HttpNetworkError(i) ==
    /\ i \in 1..Len(httpCalls)
    /\ httpCalls[i].state = "pending"
    /\ httpCalls' = [httpCalls EXCEPT
                        ![i].response = NetworkFailure,
                        ![i].state = "rejected",
                        ![i].value = [kind |-> "error", status |-> 0, data |-> ""]]
    /\ UNCHANGED <<gatewayVars, socketVars, reads, requests>>

(***************************************************************************)
(* initSocket(), the transport's signals and the socket accessor           *)
(***************************************************************************)
\* Mutant of Settle: a settled promise is settled again.
SettleAgain(p, outcome) ==
    [p EXCEPT !.state = outcome, !.transitions = @ + 1]

\* resolve() / reject(err) of a promise: only a pending promise changes.
Settle(p, outcome) ==
    IF p.state = "pending"
    THEN [p EXCEPT !.state = outcome, !.transitions = @ + 1]
    ELSE p

\* The handlers registered by the initSocket() call whose promise is call.
Handlers(socket, call) ==
    {[socket |-> socket, event |-> "connect", call |-> call, outcome |-> "fulfilled"],
     [socket |-> socket, event |-> "connect_error", call |-> call, outcome |-> "rejected"]}

\* Mutant of initSocket: no debounce, every call opens a connection.
initSocketNoDebounce ==
    /\ Len(initCalls) < MaxInitCalls
    /\ ioCount' = ioCount + 1
    /\ _socket' = ioCount + 1
    /\ listeners' = listeners \cup Handlers(ioCount + 1, Len(initCalls) + 1)
    /\ initCalls' = Append(initCalls,
                           [debounced |-> FALSE, state |-> "pending", transitions |-> 0])
    /\ UNCHANGED <<gatewayVars, signals, reads, httpVars>>

\* Mutant of initSocket: a debounced call waits for the first call's handshake.
initSocketAwaitsFirst ==
    /\ Len(initCalls) < MaxInitCalls
    /\ IF _socket # 0
       THEN /\ initCalls' = Append(initCalls,
                                   [debounced |-> TRUE, state |-> "pending", transitions |-> 0])
            /\ listeners' = listeners \cup Handlers(_socket, Len(initCalls) + 1)
            /\ UNCHANGED <<_socket, ioCount>>
       ELSE /\ ioCount' = ioCount + 1
            /\ _socket' = ioCount + 1
            /\ listeners' = listeners \cup Handlers(ioCount + 1, Len(initCalls) + 1)
            /\ initCalls' = Append(initCalls,
                                   [debounced |-> FALSE, state |-> "pending", transitions |-> 0])
    /\ UNCHANGED <<gatewayVars, signals, reads, httpVars>>

\* public async initSocket(): Promise<void>
initSocket ==
    /\ Len(initCalls) < MaxInitCalls
    /\ IF _socket # 0
       THEN \* Debounce if exists: the async function returns, its promise is fulfilled
            /\ initCalls' = Append(initCalls,
                                   [debounced |-> TRUE, state |-> "fulfilled", transitions |-> 1])
            /\ UNCHANGED <<_socket, ioCount, listeners>>
       ELSE /\ ioCount' = ioCount + 1
            /\ _socket' = ioCount + 1
            /\ listeners' = listeners \cup Handlers(ioCount + 1, Len(initCalls) + 1)
            /\ initCalls' = Append(initCalls,
                                   [debounced |-> FALSE, state |-> "pending", transitions |-> 0])
    /\ UNCHANGED <<gatewayVars, signals, reads, httpVars>>

\* The socket emits an event: every handler registered for it runs.
Emit(event) ==
    [k \in 1..Len(initCalls) |->
        IF \E h \in listeners : h.socket = _socket /\ h.event = event /\ h.call = k
        THEN Settle(initCalls[k],
                    (CHOOSE h \in listeners :
                        h.socket = _socket /\ h.event = event /\ h.call = k).outcome)
        ELSE initCalls[k]]

\* Whether the transport is connected: its last signal was "connect".
TransportOpen == signals # <<>> /\ Last(signals) = "connect"

\* this._socket.on("connect", () => { resolve(); })
OnConnect ==
    /\ _socket # 0
    /\ Len(signals) < MaxSignals
    /\ ~TransportOpen
    /\ signals' = Append(signals, "connect")
    /\ initCalls' = Emit("connect")
    /\ UNCHANGED <<gatewayVars, _socket, ioCount, listeners, reads, httpVars>>

\* Mutant of OnConnectError: the failed channel is dropped.
OnConnectErrorClearsSocket ==
    /\ _socket # 0
    /\ Len(signals) < MaxSignals
    /\ ~TransportOpen
    /\ signals' = Append(signals, "connect_error")
    /\ initCalls' = Emit("connect_error")
    /\ _socket' = 0
    /\ UNCHANGED <<gatewayVars, ioCount, listeners, reads, httpVars>>

\* this._socket.on("connect_error", (err) => { reject(err); })
OnConnectError ==
    /\ _socket # 0
    /\ Len(signals) < MaxSignals
    /\ ~TransportOpen
    /\ signals' = Append(signals, "connect_error")
    /\ initCalls' = Emit("connect_error")
    /\ UNCHANGED <<gatewayVars, _socket, ioCount, listeners, reads, httpVars>>

\* The connection drops; with reconnection: true the transport dials again.
\* No handler is registered for it.
OnDisconnect ==
    /\ _socket # 0
    /\ Len(signals) < MaxSignals
    /\ TransportOpen
    /\ signals' = Append(signals, "disconnect")
    /\ UNCHANGED <<gatewayVars, _socket, ioCount, listeners, initCalls, reads, httpVars>>

\* The message of the Error the accessor throws (its backquotes left out).
NotInitialized == "Socket not initialized. Call initSocket() first."

\* Mutant of SocketGetter: the accessor returns undefined instead of throwing.
SocketGetterUnguarded ==
    [kind |-> "return", message |-> "", value |-> _socket]

\* Mutant of SocketGetter: the accessor waits for the connection.
SocketGetterNeedsConnect ==
    IF _socket = 0 \/ ~TransportOpen
    THEN [kind |-> "throw", message |-> NotInitialized, value |-> 0]
    ELSE [kind |-> "return", message |-> "", value |-> _socket]

\* public get socket(): ExtendedSocket
SocketGetter ==
    IF _socket = 0
    THEN [kind |-> "throw", message |-> NotInitialized, value |-> 0]
    ELSE [kind |-> "return", message |-> "", value |-> _socket]

\* A caller reads skinport.socket.
ReadSocket ==
    /\ Len(reads) < MaxReads
    /\ reads' = Append(reads, SocketGetter)
    /\ UNCHANGED <<gatewayVars, socketVars, httpVars>>

(***************************************************************************)
(* Specification                                                           *)
(***************************************************************************)
\* new Skinport(id, secret): the client right after construction.
Construct(id, secret) ==
    /\ clientId = id
    /\ clientSecret = secret
    /\ api = AxiosCreate(id, secret)
    /\ _socket = 0
    /\ ioCount = 0
    /\ listeners = {}
    /\ signals = <<>>
    /\ initCalls = <<>>
    /\ reads = <<>>
    /\ httpCalls = <<>>
    /\ requests = <<>>

\* A client constructed with any credentials.
Init == \E id \in Credentials, secret \in Credentials : Construct(id, secret)

\* new Skinport() and new Skinport("a", e-acute)
SampleCredentials ==
    {<<[present |-> FALSE, str |-> <<>>], [present |-> FALSE, str |-> <<>>]>>,
     <<[present |-> TRUE, str |-> <<97>>], [present |-> TRUE, str |-> <<233>>]>>}

\* A client constructed without credentials or with the sample pair.
InitSample == \E c \in SampleCredentials : Construct(c[1], c[2])

\* The marketplace operations and the network's answers.
NextGateway ==
    \/ \E o \in OptionChoices("getItems") : getItems(o)
    \/ \E o \in OptionChoices("getSalesHistory") : getSalesHistory(o)
    \/ \E o \in OptionChoices("getOutOfStock") : getOutOfStock(o)
    \/ \E o \in OptionChoices("getTransactions") : getTransactions(o)
    \/ \E i \in 1..MaxHttpCalls, st \in Statuses, d \in Bodies : HttpResponse(i, st, d)
    \/ \E i \in 1..MaxHttpCalls : HttpNetworkError(i)

\* The channel operations and the transport's signals.
NextSocket ==
    \/ initSocket
    \/ OnConnect
    \/ OnConnectError
    \/ OnDisconnect
    \/ ReadSocket

Next == NextGateway \/ NextSocket

\* The whole client, constructed with sample credentials.
Spec == InitSample /\ [][Next]_vars

\* The gateway alone, constructed with any credentials.
SpecGateway == Init /\ [][NextGateway]_vars

(***************************************************************************)
(* Vocabulary of the properties                                            *)
(***************************************************************************)
Range(s) == {s[k] : k \in 1..Len(s)}

\* The first handshake of the channel, as the transport reported it.
HandshakeInFlight == _socket # 0 /\ signals = <<>>
HandshakeSucceeded == signals # <<>> /\ signals[1] = "connect"
HandshakeFailed == signals # <<>> /\ signals[1] = "connect_error"

\* The lifecycle state of the channel.
Lifecycle ==
    IF _socket = 0 /\ initCalls = <<>> THEN "Uninitialized"
    ELSE IF "connect" \in Range(signals) THEN "Connected"
    ELSE IF "connect_error" \in Range(signals) THEN "Failed"
    ELSE "Connecting"

\* Decoding, written independently of the encoders above.
Base64Index(c) == CHOOSE i \in 0..63 : Base64Char(i) = c

RECURSIVE Base64Decode(_)
Base64Decode(t) ==
    IF Len(t) < 4 THEN <<>>
    ELSE LET i1 == Base64Index(t[1])
             i2 == Base64Index(t[2])
         IN  IF t[3] = PadChar
             THEN <<i1 * 4 + (i2 \div 16)>>
             ELSE IF t[4] = PadChar
             THEN <<i1 * 4 + (i2 \div 16),
                    (i2 % 16) * 16 + (Base64Index(t[3]) \div 4)>>
             ELSE <<i1 * 4 + (i2 \div 16),
                    (i2 % 16) * 16 + (Base64Index(t[3]) \div 4),
                    (Base64Index(t[3]) % 4) * 64 + Base64Index(t[4])>>
                  \o Base64Decode(SubSeq(t, 5, Len(t)))

RECURSIVE Utf8Decode(_)
Utf8Decode(b) ==
    IF b = <<>> THEN <<>>
    ELSE IF b[1] < 128 THEN <<b[1]>> \o Utf8Decode(Tail(b))
    ELSE <<(b[1] - 192) * 64 + (b[2] - 128)>> \o Utf8Decode(SubSeq(b, 3, Len(b)))

\* A header value is "Basic " followed by the base64 text of id ":" secret.
IsBasicCredential(h, id, secret) ==
    /\ Len(h) > Len(BasicPrefix)
    /\ SubSeq(h, 1, Len(BasicPrefix)) = BasicPrefix
    /\ LET text == SubSeq(h, Len(BasicPrefix) + 1, Len(h))
       IN  /\ Len(text) % 4 = 0
           /\ \A k \in 1..Len(text) :
                text[k] = PadChar => (k > Len(text) - 2 /\ text[Len(text)] = PadChar)
           /\ Utf8Decode(Base64Decode(text)) = id.str \o <<Colon>> \o secret.str

\* Every Authorization value the client holds or has sent.
AuthorizationValues ==
    {api.headers.Authorization}
        \cup {requests[k].headers.Authorization : k \in 1..Len(requests)}

(***************************************************************************)
(* Properties                                                              *)
(***************************************************************************)

\* C1: whatever the number and interleaving of initSocket() calls, the
\* transport connection is created at most once.
C1_AtMostOneConnection == ioCount <= 1

\* A second initSocket() call was made while the first handshake is in flight.
C1_Witness ==
    /\ Len(initCalls) >= 2
    /\ ioCount = 1
    /\ HandshakeInFlight

\* C2: while initSocket() has never been invoked, every read of the socket
\* accessor throws the 'Socket not initialized' error, returns no value and
\* leaves the client unchanged.
C2_ReadBeforeInitThrows ==
    [][(initCalls = <<>> /\ reads' # reads) =>
          /\ \A k \in 1..Len(reads') :
                /\ reads'[k].kind = "throw"
                /\ reads'[k].message = NotInitialized
          /\ UNCHANGED <<gatewayVars, socketVars, httpVars>>]_vars

\* The accessor was read twice, after an HTTP operation, before any initSocket().
C2_Witness ==
    /\ initCalls = <<>>
    /\ Len(reads) = 2
    /\ httpCalls # <<>>
    /\ Last(reads).kind = "throw"

\* C3: the first initSocket() call is pending while Connecting, and once the
\* handshake has succeeded the channel is Connected and the call's promise
\* is fulfilled, settled exactly once, whatever the transport signals later.
C3_SuccessResolvesOnce ==
    /\ HandshakeInFlight =>
          /\ Lifecycle = "Connecting"
          /\ initCalls[1].state = "pending"
          /\ initCalls[1].transitions = 0
    /\ HandshakeSucceeded =>
          /\ Lifecycle = "Connected"
          /\ initCalls[1].state = "fulfilled"
          /\ initCalls[1].transitions = 1

\* The handshake succeeded, the connection dropped and a connection error followed.
C3_Witness ==
    /\ Len(initCalls) = 1
    /\ signals = <<"connect", "disconnect", "connect_error">>
    /\ initCalls[1].state = "fulfilled"

C5_FulfilledOnlyWhenConnected ==
    \A k \in 1..Len(initCalls) :
        initCalls[k].state = "fulfilled" => "connect" \in Range(signals)

\* C6 as stated: two given credentials yield the Basic header, an absent one
\* yields none.
C6_GivenCredentialsYieldBasic ==
    \A h \in AuthorizationValues :
        IF clientId.present /\ clientSecret.present
        THEN IsBasicCredential(h, clientId, clientSecret)
        ELSE h = <<>>

\* C6: with two non-empty credentials every Authorization value, at
\* construction and on every request, is "Basic " and the base64 text of
\* "clientId:clientSecret"; with one absent or empty it is the empty string.
C6_AuthorizationHeader ==
    \A h \in AuthorizationValues :
        IF Truthy(clientId) /\ Truthy(clientSecret)
        THEN IsBasicCredential(h, clientId, clientSecret)
        ELSE h = <<>>

\* getTransactions was sent with the header "Basic YTrDqQ==" for ("a", e-acute).
C6_Witness ==
    /\ clientId.str = <<97>>
    /\ clientSecret.str = <<233>>
    /\ \E k \in 1..Len(requests) :
          /\ requests[k].url = "/account/transactions"
          /\ requests[k].headers.Authorization =
                BasicPrefix \o <<89, 84, 114, 68, 113, 81, 61, 61>>

C8_ChannelIffInvokedAndNotFailed ==
    /\ api.baseURL = "https://api.skinport.com/v1"
    /\ (_socket # 0) <=> (initCalls # <<>> /\ ~HandshakeFailed)

C10_ChannelObjectPersists ==
    [][_socket # 0 =>
          /\ _socket' = _socket
          /\ reads' # reads =>
                /\ Last(reads').kind = "return"
                /\ Last(reads').value = _socket]_vars

\* The accessor returned the channel after the handshake had failed.
C10_Witness ==
    /\ Lifecycle = "Failed"
    /\ Len(reads) = 2
    /\ reads[1].kind = "throw"
    /\ reads[2].kind = "return"
    /\ reads[2].value = 1

=============================================================================
